---- MODULE Spec2Model ----
(***************************************************************************)
(* Model of the UHI hotspot pipeline (backend/pipeline.py, stats.py,       *)
(* main.py, providers.py).                                                 *)
(*                                                                         *)
(* SpecRaster : the per-pixel voting and mask builder of UHIPipeline.run   *)
(*              (lines 143-161), evaluated for one generic AOI pixel.      *)
(* SpecStats  : sample filtering, run_spatial_stats and consensus fusion   *)
(*              (pipeline.py 172-182, 232-254; stats.py).                  *)
(* Spec       : overlapping /analyze requests for one (city, year) key,    *)
(*              each stepping through UHIPipeline.run and its files.       *)
(* SpecSeq    : the same requests sent one after another.                  *)
(* SpecFile   : GET /file/{path}, the path check of get_file (main.py).    *)
(*                                                                         *)
(* Earth Engine images are lazy, per-pixel expressions: a pixel is a value *)
(* with a mask bit.  Percentile thresholds, the AOI mean elevation, the    *)
(* sample and the esda statistics come from outside the program and are    *)
(* drawn from small sets.  z-scores and p-values are in hundredths.        *)
(***************************************************************************)
EXTENDS Integers, Naturals, Sequences, FiniteSets, TLC

VARIABLES
    \* ---- raster part (one generic pixel of the AOI) ----
    rpc,          \* position inside steps 4-5 of run
    conds,        \* the list `conds` built so far (pixel values of the bands)
    last,         \* the layer value and threshold the newest condition was built from
    count_true,   \* pixel of count_true
    lulc,         \* pixel of lulc
    elevation,    \* pixel of elevation
    elev_mean,    \* AOI mean elevation (reduceRegion)
    prelim_hot,   \* pixel of prelim_hot
    \* ---- sampling, statistics and fusion part ----
    spc,          \* position inside steps 6-7 of run
    fc,           \* fc['features']: the sampled features, in the provider's order
    values,       \* the list `values` handed to run_spatial_stats
    lons,         \* the list `lons`
    lats,         \* the list `lats`
    stats,        \* the dictionary returned by run_spatial_stats
    features,     \* the list `features` of doubly-significant points
    pix_pos,      \* where the generic pixel lies (metres along the sample line)
    validated,    \* whether validated_hot was produced (the try block completed)
    validated_hot, \* pixel of validated_hot
    \* ---- requests, runs and the output directory of one (city, year) ----
    pipeline,     \* the global `pipeline` of main.py: "None" or "ready"
    req_pc,       \* per request: where analyze_city / run stands
    req_force,    \* per request: the force argument
    req_stats,    \* per request: the local `stats` of run
    req_assets,   \* per request: the keys of the local dict `assets`
    response,     \* per request: what /analyze answered
    outcome,      \* per request: the path the run took to its end
    dir_exists,   \* whether <output>/<city>/<year> exists
    files,        \* per file of that directory: the request that wrote it last (0: absent)
    index_assets, \* the 'assets' keys stored in index.json
    \* ---- the file-serving endpoint ----
    file_path,    \* the path parameter of the latest GET /file/{path}
    abs_path,     \* the local abs_path of get_file
    file_resp     \* its answer: 200 (FileResponse), 403 or 404; 0 before any request

rasterVars == <<rpc, conds, last, count_true, lulc, elevation, elev_mean, prelim_hot>>
statsVars == <<spc, fc, values, lons, lats, stats, features, pix_pos, validated, validated_hot>>
runVars == <<pipeline, req_pc, req_force, req_stats, req_assets, response, outcome,
             dir_exists, files, index_assets>>
fileVars == <<file_path, abs_path, file_resp>>
vars == <<rasterVars, statsVars, runVars, fileVars>>

-----------------------------------------------------------------------------
(* Bounds of the model *)
MaxVal == 2          \* percentile layers take values 0..MaxVal
MaxThr == 2          \* percentile thresholds are drawn from 1..MaxThr
ElevSpread == 1      \* elevations reach ElevSpread above the cut-off

MaxExtra == 2        \* the provider delivers up to MIN_SAMPLES + MaxExtra features
MaxPixPos == 6       \* the pixel lies at 0..MaxPixPos sample spacings
Spacing == 250       \* metres between neighbouring sample points

NReq == 2            \* number of /analyze requests for the key
MaxFailAt == 2       \* a failing variable thumbnail is one of the first MaxFailAt
MaxSegs == 3         \* a requested path has up to MaxSegs segments

(* Program constants *)
MIN_SAMPLES == 50
Z_CRIT == 196        \* 1.96, in hundredths
P_CRIT == 5          \* 0.05, in hundredths
HH == 1
RADIUS == 500        \* metres

URBAN_CLASS == 13
ELEV_MARGIN == 200
WATER_DIST_MIN == 500
MIN_VOTES == 6

-----------------------------------------------------------------------------
(* Earth Engine pixel values: a value together with its mask bit.  A masked *)
(* pixel carries no value; its v is kept 0.                                 *)
Masked == [m |-> FALSE, v |-> 0]
Px(x) == [m |-> TRUE, v |-> x]
Bool01(b) == IF b THEN 1 ELSE 0

\* ee.Image.gt / lt / lte / eq / gte against a scalar
ImgGt(a, k) == IF a.m THEN Px(Bool01(a.v > k)) ELSE Masked
ImgLt(a, k) == IF a.m THEN Px(Bool01(a.v < k)) ELSE Masked
ImgLte(a, k) == IF a.m THEN Px(Bool01(a.v <= k)) ELSE Masked
ImgGte(a, k) == IF a.m THEN Px(Bool01(a.v >= k)) ELSE Masked
ImgEq(a, k) == IF a.m THEN Px(Bool01(a.v = k)) ELSE Masked
\* ee.Image.And: 1 where both are non-zero, masked where either is masked
ImgAnd(a, b) == IF a.m /\ b.m THEN Px(Bool01(a.v # 0 /\ b.v # 0)) ELSE Masked
\* ee.Image.selfMask: masks the pixels whose value is zero
SelfMask(a) == IF a.m /\ a.v # 0 THEN a ELSE Masked

RECURSIVE SumBands(_)
\* ee.Reducer.sum over the bands of one pixel: masked bands are skipped
SumBands(s) ==
    IF s = <<>> THEN 0
    ELSE (IF Head(s).m THEN Head(s).v ELSE 0) + SumBands(Tail(s))

\* UHIPipeline._boolean_count: stack.gt(0).reduce(ee.Reducer.sum())
\* (variant: ee.Reducer.count() in place of ee.Reducer.sum())
BooleanCountOfBands(images) ==
    IF \E i \in 1..Len(images) : images[i].m
    THEN Px(Cardinality({i \in 1..Len(images) : images[i].m}))
    ELSE Masked
BooleanCount(images) ==
    IF \E i \in 1..Len(images) : images[i].m
    THEN Px(SumBands([i \in 1..Len(images) |-> ImgGt(images[i], 0)]))
    ELSE Masked

\* The 8 entries of `conds`, in the order of the list literal
LayerNames == <<"lst", "ndvi", "albedo", "impervious", "bld_dens", "pop", "ntl", "water_dist">>
NConds == Len(LayerNames)

\* One entry of `conds`: the comparison the code applies to layer k
Cond(k, img, thr) ==
    CASE k \in {1, 4, 5, 6, 7} -> ImgGt(img, thr)
      [] k \in {2, 3} -> ImgLt(img, thr)
      [] k = 8 -> ImgGt(img, WATER_DIST_MIN)

\* urban_mask, elev_ok and prelim_hot of step 4/5
UrbanMask(lc) == ImgEq(lc, URBAN_CLASS)
ElevOk(el, mean) == ImgLte(el, mean + ELEV_MARGIN)
\* (variant: the trailing selfMask() left out)
PrelimHotNoSelfMask(cnt, lc, el, mean) ==
    ImgAnd(ImgAnd(ImgGte(cnt, MIN_VOTES), UrbanMask(lc)), ElevOk(el, mean))
PrelimHot(cnt, lc, el, mean) ==
    SelfMask(ImgAnd(ImgAnd(ImgGte(cnt, MIN_VOTES), UrbanMask(lc)), ElevOk(el, mean)))

-----------------------------------------------------------------------------
(* Inputs the provider can deliver for one pixel *)
LayerVals(k) ==
    IF k = 8
    THEN {Masked} \cup {Px(x) : x \in (WATER_DIST_MIN - 1)..(WATER_DIST_MIN + 1)}
    ELSE {Masked} \cup {Px(x) : x \in 0..MaxVal}
Thresholds == 1..MaxThr
LulcVals == {Masked, Px(URBAN_CLASS - 1), Px(URBAN_CLASS), Px(URBAN_CLASS + 1)}
ElevMeans == {0, 100}
ElevVals(mean) == {Masked, Px(0)} \cup
    {Px(x) : x \in (mean + ELEV_MARGIN)..(mean + ELEV_MARGIN + ElevSpread)}

NoInput == [k |-> 0, img |-> Masked, thr |-> 0]

\* no GET /file request yet
NoPath == [lead |-> 0, segs |-> <<>>]
IdleFile ==
    /\ file_path = NoPath
    /\ abs_path = NoPath
    /\ file_resp = 0

Reqs == 1..NReq
NoResponse == [status |-> 0, detail |-> "", assets |-> {}]
NoStats == [n |-> 0]

\* the files run writes into the city directory, in the order it writes them
VarImgs == <<"lst.png", "ndvi.png", "albedo.png", "impervious.png", "building_density.png",
             "population.png", "ntl.png", "water_distance.png", "elevation.png", "lulc.png">>
VarImgSet(k) == {VarImgs[i] : i \in 1..k}
FileNames == {"thresholds.json", "threshold_exceedance.png", "preliminary_hotspots.png",
              "validated_hotspots.png", "spatial_stats.json", "index.json"}
                \cup VarImgSet(Len(VarImgs))

\* state at start-up of main.py: no pipeline, no request, no output for the key
IdleRun ==
    /\ IdleFile
    /\ pipeline = "None"
    /\ req_pc = [r \in Reqs |-> "idle"]
    /\ req_force = [r \in Reqs |-> FALSE]
    /\ req_stats = [r \in Reqs |-> NoStats]
    /\ req_assets = [r \in Reqs |-> {}]
    /\ response = [r \in Reqs |-> NoResponse]
    /\ outcome = [r \in Reqs |-> "none"]
    /\ dir_exists = FALSE
    /\ files = [f \in FileNames |-> 0]
    /\ index_assets = {}

IdleStats ==
    /\ spc = "idle"
    /\ fc = <<>>
    /\ values = <<>>
    /\ lons = <<>>
    /\ lats = <<>>
    /\ stats = [n |-> 0]
    /\ features = <<>>
    /\ pix_pos = 0
    /\ validated = FALSE
    /\ validated_hot = Masked

InitRaster ==
    /\ IdleStats
    /\ IdleRun
    /\ rpc = "conds"
    /\ conds = <<>>
    /\ last = NoInput
    /\ count_true = Masked
    /\ lulc = Masked
    /\ elevation = Masked
    /\ elev_mean = 0
    /\ prelim_hot = Masked

\* pipeline.py 149-158: one more entry of the list `conds`
AddCond ==
    /\ rpc = "conds"
    /\ Len(conds) < NConds
    /\ LET k == Len(conds) + 1 IN
       \E img \in LayerVals(k), thr \in Thresholds :
          /\ conds' = Append(conds, Cond(k, img, thr))
          /\ last' = [k |-> k, img |-> img, thr |-> IF k = 8 THEN WATER_DIST_MIN ELSE thr]
    /\ UNCHANGED <<rpc, count_true, lulc, elevation, elev_mean, prelim_hot>>
    /\ UNCHANGED <<statsVars, runVars, fileVars>>

\* pipeline.py 160: count_true = self._boolean_count(conds)
CountVotes ==
    /\ rpc = "conds"
    /\ Len(conds) = NConds
    /\ count_true' = BooleanCount(conds)
    /\ rpc' = "count"
    /\ UNCHANGED <<conds, last, lulc, elevation, elev_mean, prelim_hot>>
    /\ UNCHANGED <<statsVars, runVars, fileVars>>

\* pipeline.py 144-146 and 161: the mandatory masks and prelim_hot
BuildMask ==
    /\ rpc = "count"
    /\ \E lc \in LulcVals, mean \in ElevMeans :
       \E el \in ElevVals(mean) :
          /\ lulc' = lc
          /\ elev_mean' = mean
          /\ elevation' = el
          /\ prelim_hot' = PrelimHot(count_true, lc, el, mean)
    /\ rpc' = "done"
    /\ UNCHANGED <<conds, last, count_true>>
    /\ UNCHANGED <<statsVars, runVars, fileVars>>

NextRaster == AddCond \/ CountVotes \/ BuildMask
SpecRaster == InitRaster /\ [][NextRaster]_vars

-----------------------------------------------------------------------------
(* Claims about the voting engine and the mask builder *)

\* what "condition k is true at the pixel" means for the layer value img:
\* the hot-indicative direction of each layer and the fixed water distance
HotIndicative(k, img, thr) ==
    /\ img.m
    /\ CASE k \in {1, 4, 5, 6, 7} -> img.v > thr        \* lst, impervious, bld_dens, pop, ntl: above the 80th percentile
         [] k \in {2, 3} -> img.v < thr                 \* ndvi, albedo: below the 20th percentile
         [] k = 8 -> img.v > 500                        \* water distance > 500
IsTrue(c) == c.m /\ c.v # 0

\* C1: the preliminary hotspot pixel has a value iff vote count >= 6, land
\* cover = 13 and elevation <= AOI mean elevation + 200 all hold; a pixel
\* failing any of them is masked and never carries a false (zero) value.
C1_PrelimIffAllThree ==
    rpc = "done" =>
        /\ prelim_hot.m <=>
               /\ count_true.m /\ count_true.v >= 6
               /\ lulc.m /\ lulc.v = 13
               /\ elevation.m /\ elevation.v <= elev_mean + 200
        /\ ~(prelim_hot.m /\ prelim_hot.v = 0)
        /\ ~prelim_hot.m => prelim_hot = Masked

C1_Witness ==
    /\ rpc = "done"
    /\ prelim_hot.m
    /\ count_true.v = 6
    /\ elevation.v = elev_mean + 200

\* C2: the vote count is an integer in 0..8 equal to the number of the 8
\* condition layers that are true at the pixel, each condition being the
\* layer's comparison in the hot-indicative direction (water distance > 500).
C2_VoteCount ==
    /\ last.k # 0 =>
          (IsTrue(conds[last.k]) <=> HotIndicative(last.k, last.img, last.thr))
    /\ rpc \in {"count", "done"} /\ count_true.m =>
          /\ count_true.v \in 0..8
          /\ count_true.v = Cardinality({i \in 1..8 : IsTrue(conds[i])})
    /\ rpc \in {"count", "done"} /\ ~count_true.m =>
          \A i \in 1..8 : ~conds[i].m

C2_Witness ==
    /\ rpc = "count"
    /\ count_true = Px(7)
    /\ ~conds[5].m
    /\ last.k = 8 /\ last.img = Px(501)

-----------------------------------------------------------------------------
(***************************************************************************)
(* SpecStats : sampling, run_spatial_stats and consensus fusion            *)
(* (pipeline.py 172-182 and 232-254, stats.py), with the generic pixel     *)
(* lying on the line of the sample points.                                 *)
(***************************************************************************)

\* the property 'count_true' of a feature: absent or None, NaN, or a number
Null == [t |-> "null", v |-> 0]
NaN == [t |-> "nan", v |-> 0]
Num(x) == [t |-> "num", v |-> x]

\* pipeline.py 176-181: the filter that fills values, lons and lats
HasCount(feat) == feat.ct.t # "null"
Retained(feats) == SelectSeq(feats, HasCount)
FilterSamples(feats) ==
    LET kept == Retained(feats) IN
    [values |-> [i \in 1..Len(kept) |-> kept[i].ct],
     lons |-> [i \in 1..Len(kept) |-> kept[i].lon],
     lats |-> [i \in 1..Len(kept) |-> kept[i].lat]]

RECURSIVE MaskIdx(_, _)
\* stats.py 11: the positions (in order) that mask = ~np.isnan(values) keeps
MaskIdx(vals, i) ==
    IF i > Len(vals) THEN <<>>
    ELSE (IF vals[i].t # "nan" THEN <<i>> ELSE <<>>) \o MaskIdx(vals, i + 1)
\* stats.py 12-14: arr[mask]
ApplyMask(arr, vals) ==
    LET idx == MaskIdx(vals, 1) IN [i \in 1..Len(idx) |-> arr[idx[i]]]

\* stats.py 15: the sample-count test
InsufficientOffByOne(size) == size <= MIN_SAMPLES
Insufficient(size) == size < MIN_SAMPLES

InsufficientResult == [error |-> "Insufficient samples for spatial statistics"]

\* stats.py 9-46.  gi and mi are what G_Local and Moran_Local computed for the
\* masked values and coordinates (z and p in hundredths).
RunSpatialStats(vals, lns, lts, gi, mi) ==
    LET v == ApplyMask(vals, vals) IN
    IF Insufficient(Len(v)) THEN InsufficientResult
    ELSE [n |-> Len(v),
          gi |-> [z_scores |-> gi.Zs,
                  p_values |-> gi.p_norm,
                  hotspot_95_mask |->
                      [i \in 1..Len(gi.Zs) |->
                          Bool01(gi.Zs[i] > Z_CRIT /\ gi.p_norm[i] < P_CRIT)]],
          moran |-> [Is |-> mi.Is,
                     p_values |-> mi.p_sim,
                     significant_95_mask |->
                         [i \in 1..Len(mi.p_sim) |-> Bool01(mi.p_sim[i] < P_CRIT)],
                     q |-> mi.q]]

\* What esda can return for n standardized values: one array entry per value.
\* At most one entry (h) departs from an insignificant low-low baseline.
HotCand(n) == {0, 1, 2, n}
LibResultsFor(n, H, Z, P, PS, Q) ==
    IF Insufficient(n) THEN {[gi |-> [Zs |-> <<>>, p_norm |-> <<>>],
                              mi |-> [Is |-> <<>>, p_sim |-> <<>>, q |-> <<>>]]}
    ELSE
    {[gi |-> [Zs |-> [i \in 1..n |-> IF i = h THEN z ELSE 0],
              p_norm |-> [i \in 1..n |-> IF i = h THEN p ELSE 100]],
      mi |-> [Is |-> [i \in 1..n |-> 0],
              p_sim |-> [i \in 1..n |-> IF i = h THEN ps ELSE 50],
              q |-> [i \in 1..n |-> IF i = h THEN qq ELSE 3]]] :
        h \in H, z \in Z, p \in P, ps \in PS, qq \in Q}
LibResults(n) ==
    LibResultsFor(n, HotCand(n), {Z_CRIT, Z_CRIT + 1}, {P_CRIT - 1, P_CRIT},
                  {P_CRIT - 1, P_CRIT}, {HH, 2})

\* pipeline.py 233-236: stats.get(...).get(..., []) and sig_both
GetMask(st, grp, key) ==
    IF grp \in DOMAIN st THEN st[grp][key] ELSE <<>>
\* (variant: the quadrant test mi_q == 1 left out)
SigBothNoQuadrant(st) ==
    LET gi_hot == GetMask(st, "gi", "hotspot_95_mask")
        mi_sig == GetMask(st, "moran", "significant_95_mask")
    IN [i \in 1..Len(gi_hot) |-> gi_hot[i] = 1 /\ mi_sig[i] = 1]
SigBoth(st) ==
    LET gi_hot == GetMask(st, "gi", "hotspot_95_mask")
        mi_sig == GetMask(st, "moran", "significant_95_mask")
        mi_q == GetMask(st, "moran", "q")
    IN [i \in 1..Len(gi_hot) |-> gi_hot[i] = 1 /\ mi_sig[i] = 1 /\ mi_q[i] = HH]

RECURSIVE JoinFrom(_, _, _)
\* pipeline.py 238-248: the index-based join (idx counts the retained features)
JoinFrom(kept, sig_both, i) ==
    IF i > Len(kept) THEN <<>>
    ELSE (IF i <= Len(sig_both) /\ sig_both[i]
          THEN <<[lon |-> kept[i].lon, lat |-> kept[i].lat]>>
          ELSE <<>>) \o JoinFrom(kept, sig_both, i + 1)
SigFeatures(feats, sig_both) == JoinFrom(Retained(feats), sig_both, 1)

Dist(a, b) == IF a >= b THEN a - b ELSE b - a

\* pipeline.py 249-253: reduceToImage and focal_max with the 500 m circle
SigDensity(pts, pos) ==
    LET near == {i \in 1..Len(pts) : pts[i].lat = 0 /\ Dist(pts[i].lon, pos) <= RADIUS}
    IN IF near = {} THEN Masked ELSE Px(1)
\* pipeline.py 254
\* (variant: prelim_hot.And dropped)
ValidatedHotDensityOnly(prelim, dens) == SelfMask(ImgGt(dens, 0))
ValidatedHot(prelim, dens) == SelfMask(ImgAnd(prelim, ImgGt(dens, 0)))

-----------------------------------------------------------------------------
\* the features the provider's sample() can deliver: L features one Spacing
\* apart, at most one with no count_true and at most one with a NaN
SampleSet(L, nullAt, nanAt) ==
    [i \in 1..L |->
        [ct |-> IF i = nullAt THEN Null ELSE IF i = nanAt THEN NaN ELSE Num(i % 9),
         lon |-> i * Spacing, lat |-> 0]]
SampleSets ==
    {SampleSet(L, nullAt, nanAt) :
      L \in (MIN_SAMPLES - 1)..(MIN_SAMPLES + MaxExtra),
      nullAt \in {0, 1, 2, MIN_SAMPLES - 1}, nanAt \in {0, 1, 2, MIN_SAMPLES - 1}}

DonePixel(cnt) ==
    /\ rpc = "done"
    /\ conds = <<>>
    /\ last = NoInput
    /\ count_true = Px(cnt)
    /\ lulc = Px(URBAN_CLASS)
    /\ elevation = Px(0)
    /\ elev_mean = 0
    /\ prelim_hot = PrelimHot(Px(cnt), Px(URBAN_CLASS), Px(0), 0)

\* the state after samples.getInfo() (pipeline.py 166-172)
InitStats ==
    /\ IdleRun
    /\ \E cnt \in {MIN_VOTES - 1, MIN_VOTES} : DonePixel(cnt)
    /\ spc = "sampled"
    /\ fc \in SampleSets
    /\ values = <<>>
    /\ lons = <<>>
    /\ lats = <<>>
    /\ stats = [n |-> 0]
    /\ features = <<>>
    /\ pix_pos = 0
    /\ validated = FALSE
    /\ validated_hot = Masked

\* pipeline.py 173-181
Filter ==
    /\ spc = "sampled"
    /\ LET r == FilterSamples(fc) IN
          /\ values' = r.values
          /\ lons' = r.lons
          /\ lats' = r.lats
    /\ spc' = "filtered"
    /\ UNCHANGED <<fc, stats, features, pix_pos, validated, validated_hot>>
    /\ UNCHANGED <<rasterVars, runVars, fileVars>>

\* pipeline.py 182
Stats ==
    /\ spc = "filtered"
    /\ \E lib \in LibResults(Len(ApplyMask(values, values))) :
          stats' = RunSpatialStats(values, lons, lats, lib.gi, lib.mi)
    /\ spc' = "stats"
    /\ UNCHANGED <<fc, values, lons, lats, features, pix_pos, validated, validated_hot>>
    /\ UNCHANGED <<rasterVars, runVars, fileVars>>

\* pipeline.py 232-261: the try block; the Earth Engine request of _thumb
\* either completes or raises, and a raise skips the validated map
Fuse ==
    /\ spc = "stats"
    /\ \E pos \in 0..MaxPixPos, ok \in BOOLEAN :
          LET pts == SigFeatures(fc, SigBoth(stats)) IN
          /\ features' = pts
          /\ pix_pos' = pos * Spacing
          /\ validated' = ok
          /\ validated_hot' =
                IF ok THEN ValidatedHot(prelim_hot, SigDensity(pts, pos * Spacing))
                ELSE Masked
    /\ spc' = "fused"
    /\ UNCHANGED <<fc, values, lons, lats, stats>>
    /\ UNCHANGED <<rasterVars, runVars, fileVars>>

NextStats == Filter \/ Stats \/ Fuse
SpecStats == InitStats /\ [][NextStats]_vars

-----------------------------------------------------------------------------
(* Claims about sampling, the statistics engine and consensus fusion *)

NonNaN(vals) == {i \in 1..Len(vals) : vals[i].t # "nan"}
StatArrays(st) ==
    {st.gi.z_scores, st.gi.p_values, st.gi.hotspot_95_mask,
     st.moran.Is, st.moran.p_values, st.moran.significant_95_mask, st.moran.q}
NearPixel(pts, pos) == {i \in 1..Len(pts) : Dist(pts[i].lon, pos) <= 500}

\* C3: a produced validated mask is a subset of the preliminary mask, and a
\* preliminary pixel with no doubly-significant point (a point of sig_fc)
\* within 500 m of it is absent from the validated mask.
C3_ValidatedSubset ==
    spc = "fused" /\ validated =>
        /\ validated_hot.m => prelim_hot.m
        /\ NearPixel(features, pix_pos) = {} => ~validated_hot.m
        /\ validated_hot.m => validated_hot.v # 0

C3_Witness ==
    /\ spc = "fused" /\ validated
    /\ features # <<>>
    /\ prelim_hot.m
    /\ NearPixel(features, pix_pos) = {}
    /\ ~validated_hot.m

\* C4: with N the number of non-NaN values, N < 50 gives the tagged
\* insufficient-samples result without Gi*/Moran fields, and N >= 50 gives
\* n = N and the seven Gi*/Moran arrays, each of length exactly N.
C4_SampleBoundary ==
    spc \in {"stats", "fused"} =>
        LET N == Cardinality(NonNaN(values)) IN
        IF N < 50
        THEN /\ "error" \in DOMAIN stats
             /\ "gi" \notin DOMAIN stats
             /\ "moran" \notin DOMAIN stats
             /\ "n" \notin DOMAIN stats
        ELSE /\ "error" \notin DOMAIN stats
             /\ stats.n = N
             /\ \A a \in StatArrays(stats) : Len(a) = N

C4_Witness ==
    /\ spc = "stats"
    /\ Cardinality(NonNaN(values)) = 50
    /\ Len(values) = 51
    /\ stats.n = 50
    /\ Len(stats.moran.q) = 50

\* the k-th feature of fc that carries a count_true (0 when there is none)
NthWithCount(k) ==
    LET c == {j \in 1..Len(fc) :
                 /\ fc[j].ct.t # "null"
                 /\ Cardinality({m \in 1..j : fc[m].ct.t # "null"}) = k}
    IN IF c = {} THEN 0 ELSE CHOOSE j \in c : TRUE

\* C10: null-count samples are discarded, the retained records keep their
\* order, entry i of every statistics array describes the i-th retained
\* record, and the join places a point exactly at each sample whose own
\* statistics are doubly significant.
C10_AlignedJoin ==
    /\ spc # "sampled" =>
          /\ Len(values) = Cardinality({j \in 1..Len(fc) : fc[j].ct.t # "null"})
          /\ \A i \in 1..Len(values) :
                LET j == NthWithCount(i) IN
                /\ j # 0
                /\ values[i] = fc[j].ct /\ lons[i] = fc[j].lon /\ lats[i] = fc[j].lat
    /\ spc \in {"stats", "fused"} /\ "gi" \in DOMAIN stats =>
          \* entry i was computed for the i-th row of coords (stats.py 18)
          \A i \in 1..stats.n : ApplyMask(lons, values)[i] = lons[i]
    /\ spc = "fused" =>
          {features[i].lon : i \in 1..Len(features)} =
             {ApplyMask(lons, values)[i] : i \in {k \in DOMAIN SigBoth(stats) : SigBoth(stats)[k]}}

\* the three flags at index i of the statistics arrays
AllThreeFlags(i) ==
    /\ "gi" \in DOMAIN stats
    /\ i <= Len(stats.gi.hotspot_95_mask)
    /\ stats.gi.hotspot_95_mask[i] = 1
    /\ stats.moran.significant_95_mask[i] = 1
    /\ stats.moran.q[i] = 1
Contributes(i) == \E j \in 1..Len(features) : features[j].lon = lons[i] /\ features[j].lat = lats[i]

\* C11: the retained sample at index i puts a point into the influence
\* field iff the Gi* hotspot flag, the Moran significance flag and Moran
\* quadrant = 1 all hold at index i; the Gi* flag is set only where z > 1.96
\* and p < 0.05; a validated pixel lies within 500 m of such a sample.
C11_AllThreeFlags ==
    /\ spc \in {"stats", "fused"} /\ "gi" \in DOMAIN stats =>
          \A i \in 1..Len(stats.gi.hotspot_95_mask) :
              stats.gi.hotspot_95_mask[i] = 1 =>
                  stats.gi.z_scores[i] > 196 /\ stats.gi.p_values[i] < 5
    /\ spc = "fused" =>
          /\ \A i \in 1..Len(lons) : Contributes(i) <=> AllThreeFlags(i)
          /\ validated /\ validated_hot.m =>
                \E i \in 1..Len(lons) :
                    AllThreeFlags(i) /\ Dist(lons[i], pix_pos) <= 500

\* a significant Gi* hotspot in quadrant 2 contributes nothing
C11_Witness ==
    /\ spc = "fused" /\ validated
    /\ "gi" \in DOMAIN stats
    /\ \E i \in 1..Len(stats.gi.hotspot_95_mask) :
          /\ stats.gi.hotspot_95_mask[i] = 1
          /\ stats.moran.significant_95_mask[i] = 1
          /\ stats.moran.q[i] = 2
          /\ Dist(lons[i], pix_pos) <= 500
    /\ prelim_hot.m
    /\ features = <<>>
    /\ ~validated_hot.m

-----------------------------------------------------------------------------
(***************************************************************************)
(* Spec / SpecSeq : the /analyze requests for one (city, year) key, each   *)
(* running UHIPipeline.run step by step against the output directory.      *)
(* Spec lets requests overlap (FastAPI runs the handler on worker          *)
(* threads); SpecSeq is a client that waits for each answer.               *)
(***************************************************************************)

Ok(as) == [status |-> 200, detail |-> "", assets |-> as]
Err(msg) == [status |-> 500, detail |-> msg, assets |-> {}]

\* main.py 47-48: any exception of run becomes HTTP 500 with detail = str(exc)
Raise(r, msg, how) ==
    /\ response' = [response EXCEPT ![r] = Err(msg)]
    /\ outcome' = [outcome EXCEPT ![r] = how]
    /\ req_pc' = [req_pc EXCEPT ![r] = "done"]

WriteFiles(r, names) == [f \in FileNames |-> IF f \in names THEN r ELSE files[f]]

\* pipeline.py 110: os.path.isfile(index_path) and not force
UseCacheIgnoringForce(r) == files["index.json"] # 0
UseCache(r) == files["index.json"] # 0 /\ ~req_force[r]

\* what the run's sample() and esda deliver: just below or at the minimum,
\* nothing or the first point doubly significant
RunSamples == {SampleSet(L, 0, 0) : L \in {MIN_SAMPLES - 1, MIN_SAMPLES}}
RunLibResults(n) == LibResultsFor(n, {0, 1}, {Z_CRIT + 1}, {P_CRIT - 1}, {P_CRIT - 1}, {HH})

\* main.py 34-45: analyze_city up to the call of pipeline.run
Begin(r) ==
    /\ req_pc[r] = "idle"
    /\ \E force \in BOOLEAN, init_ok \in BOOLEAN :
          /\ req_force' = [req_force EXCEPT ![r] = force]
          /\ IF pipeline = "ready" \/ init_ok
             THEN /\ pipeline' = "ready"
                  /\ req_pc' = [req_pc EXCEPT ![r] = "enter"]
                  /\ UNCHANGED <<response, outcome>>
             ELSE /\ Raise(r, "Google Earth Engine authentication is required", "other")
                  /\ UNCHANGED pipeline
    /\ UNCHANGED <<req_stats, req_assets, dir_exists, files, index_assets>>
    /\ UNCHANGED <<rasterVars, statsVars, fileVars>>

\* pipeline.py 106-112: the city directory and the stored index
Enter(r) ==
    /\ req_pc[r] = "enter"
    /\ dir_exists' = TRUE
    /\ IF UseCache(r)
       THEN /\ response' = [response EXCEPT ![r] = Ok(index_assets)]
            /\ outcome' = [outcome EXCEPT ![r] = "cached"]
            /\ req_pc' = [req_pc EXCEPT ![r] = "done"]
       ELSE /\ req_pc' = [req_pc EXCEPT ![r] = "geocode"]
            /\ UNCHANGED <<response, outcome>>
    /\ UNCHANGED <<pipeline, req_force, req_stats, req_assets, files, index_assets>>
    /\ UNCHANGED <<rasterVars, statsVars, fileVars>>

\* pipeline.py 115 / providers.py 13-30
Geocode(r) ==
    /\ req_pc[r] = "geocode"
    /\ \E res \in {"ok", "empty", "http_error"} :
          CASE res = "ok" ->
                  /\ req_pc' = [req_pc EXCEPT ![r] = "sample"]
                  /\ UNCHANGED <<response, outcome>>
            [] res = "empty" -> Raise(r, "Could not geocode city", "geocode")
            [] res = "http_error" -> Raise(r, "HTTPError", "other")
    /\ UNCHANGED <<pipeline, req_force, req_stats, req_assets, dir_exists, files, index_assets>>
    /\ UNCHANGED <<rasterVars, statsVars, fileVars>>

\* pipeline.py 117-182: the (lazy) layers, the sample download and the statistics
Sample(r) ==
    /\ req_pc[r] = "sample"
    /\ \/ /\ Raise(r, "EEException", "other")
          /\ UNCHANGED req_stats
       \/ \E feats \in RunSamples :
             LET s == FilterSamples(feats) IN
             \E lib \in RunLibResults(Len(ApplyMask(s.values, s.values))) :
                /\ req_stats' = [req_stats EXCEPT ![r] =
                                    RunSpatialStats(s.values, s.lons, s.lats, lib.gi, lib.mi)]
                /\ req_pc' = [req_pc EXCEPT ![r] = "thresholds"]
                /\ UNCHANGED <<response, outcome>>
    /\ UNCHANGED <<pipeline, req_force, req_assets, dir_exists, files, index_assets>>
    /\ UNCHANGED <<rasterVars, statsVars, fileVars>>

\* pipeline.py 186-199: assets = {} and thresholds.json
SaveThresholds(r) ==
    /\ req_pc[r] = "thresholds"
    /\ \/ /\ Raise(r, "EEException", "other")
          /\ req_assets' = [req_assets EXCEPT ![r] = {}]
          /\ UNCHANGED files
       \/ /\ files' = WriteFiles(r, {"thresholds.json"})
          /\ req_assets' = [req_assets EXCEPT ![r] = {"thresholds.json"}]
          /\ req_pc' = [req_pc EXCEPT ![r] = "var_thumbs"]
          /\ UNCHANGED <<response, outcome>>
    /\ UNCHANGED <<pipeline, req_force, req_stats, dir_exists, index_assets>>
    /\ UNCHANGED <<rasterVars, statsVars, fileVars>>

\* pipeline.py 202-217: the loop over var_imgs; k images are written, and for
\* k < 10 the download of image k+1 raises
ThumbsWritten == {k \in 0..Len(VarImgs) : k < MaxFailAt \/ k = Len(VarImgs)}
VarThumbs(r) ==
    /\ req_pc[r] = "var_thumbs"
    /\ \E k \in ThumbsWritten :
          /\ files' = WriteFiles(r, VarImgSet(k))
          /\ req_assets' = [req_assets EXCEPT ![r] = @ \cup VarImgSet(k)]
          /\ IF k = Len(VarImgs)
             THEN /\ req_pc' = [req_pc EXCEPT ![r] = "count_thumb"]
                  /\ UNCHANGED <<response, outcome>>
             ELSE Raise(r, "HTTPError", "other")
    /\ UNCHANGED <<pipeline, req_force, req_stats, dir_exists, index_assets>>
    /\ UNCHANGED <<rasterVars, statsVars, fileVars>>

\* one self._thumb(...) followed by assets[name] = path
Thumb(r, at, name, next) ==
    /\ req_pc[r] = at
    /\ \/ /\ Raise(r, "HTTPError", "other")
          /\ UNCHANGED <<files, req_assets>>
       \/ /\ files' = WriteFiles(r, {name})
          /\ req_assets' = [req_assets EXCEPT ![r] = @ \cup {name}]
          /\ req_pc' = [req_pc EXCEPT ![r] = next]
          /\ UNCHANGED <<response, outcome>>
    /\ UNCHANGED <<pipeline, req_force, req_stats, dir_exists, index_assets>>
    /\ UNCHANGED <<rasterVars, statsVars, fileVars>>

\* pipeline.py 219-223
CountThumb(r) == Thumb(r, "count_thumb", "threshold_exceedance.png", "prelim_thumb")
\* pipeline.py 225-229
PrelimThumb(r) == Thumb(r, "prelim_thumb", "preliminary_hotspots.png", "fusion")

\* pipeline.py 231-261: the try block.  Nothing in it tests for an empty
\* sig_both or an empty `features`; only an exception (of Earth Engine or of the
\* download) skips the validated map.
Fusion(r) ==
    /\ req_pc[r] = "fusion"
    /\ \E thumb_ok \in BOOLEAN :
          IF thumb_ok
          THEN /\ files' = WriteFiles(r, {"validated_hotspots.png"})
               /\ req_assets' = [req_assets EXCEPT ![r] = @ \cup {"validated_hotspots.png"}]
          ELSE UNCHANGED <<files, req_assets>>
    /\ req_pc' = [req_pc EXCEPT ![r] = "save_stats"]
    /\ UNCHANGED <<pipeline, req_force, req_stats, response, outcome, dir_exists, index_assets>>
    /\ UNCHANGED <<rasterVars, statsVars, fileVars>>

\* pipeline.py 263-266
SaveStats(r) ==
    /\ req_pc[r] = "save_stats"
    /\ files' = WriteFiles(r, {"spatial_stats.json"})
    /\ req_assets' = [req_assets EXCEPT ![r] = @ \cup {"spatial_stats.json"}]
    /\ req_pc' = [req_pc EXCEPT ![r] = "save_index"]
    /\ UNCHANGED <<pipeline, req_force, req_stats, response, outcome, dir_exists, index_assets>>
    /\ UNCHANGED <<rasterVars, statsVars, fileVars>>

\* pipeline.py 268-279 and main.py 46
SaveIndex(r) ==
    /\ req_pc[r] = "save_index"
    /\ files' = WriteFiles(r, {"index.json"})
    /\ index_assets' = req_assets[r]
    /\ response' = [response EXCEPT ![r] = Ok(req_assets[r])]
    /\ outcome' = [outcome EXCEPT ![r] =
                      IF "error" \in DOMAIN req_stats[r] THEN "insufficient" ELSE "full"]
    /\ req_pc' = [req_pc EXCEPT ![r] = "done"]
    /\ UNCHANGED <<pipeline, req_force, req_stats, req_assets, dir_exists>>
    /\ UNCHANGED <<rasterVars, statsVars, fileVars>>

RunStep(r) ==
    \/ Enter(r) \/ Geocode(r) \/ Sample(r) \/ SaveThresholds(r) \/ VarThumbs(r)
    \/ CountThumb(r) \/ PrelimThumb(r) \/ Fusion(r) \/ SaveStats(r) \/ SaveIndex(r)

InitRun ==
    /\ IdleRun
    /\ IdleStats
    /\ DonePixel(MIN_VOTES)

Next == \E r \in Reqs : Begin(r) \/ RunStep(r)
Spec == InitRun /\ [][Next]_vars

\* a client that sends the next request only after the previous answer
BeginSeq(r) ==
    /\ \A o \in Reqs \ {r} : req_pc[o] \in {"idle", "done"}
    /\ Begin(r)
NextSeq == \E r \in Reqs : BeginSeq(r) \/ RunStep(r)
SpecSeq == InitRun /\ [][NextSeq]_vars

\* main.py 51-63: what GET /assets lists for the key (every name ends .png or .json)
ListAssets == IF dir_exists THEN {f \in FileNames : files[f] # 0} ELSE {}
\* what a reader of index.json is pointed at
IndexView == IF files["index.json"] # 0 THEN index_assets \cup {"index.json"} ELSE {}

-----------------------------------------------------------------------------
(* Claims about runs, their output files and the /analyze requests *)

Finished(r) == req_pc[r] = "done"
RanToEnd(r) == outcome[r] \in {"insufficient", "full"}
NoSigPoint(r) == \A i \in DOMAIN SigBoth(req_stats[r]) : ~SigBoth(req_stats[r])[i]
InsideRun(r) == req_pc[r] \notin {"idle", "enter", "done"}

\* C5: a run whose statistics are the insufficient-samples result, or in which
\* no sample point is doubly significant, finishes without error, writes
\* spatial_stats.json and index.json, and returns an index without
\* validated_hotspots.png.
C5_ValidatedOmitted ==
    \A r \in Reqs :
        RanToEnd(r) /\ ("error" \in DOMAIN req_stats[r] \/ NoSigPoint(r)) =>
            /\ response[r].status = 200
            /\ {"spatial_stats.json"} \subseteq response[r].assets
            /\ files["spatial_stats.json"] # 0 /\ files["index.json"] # 0
            /\ "validated_hotspots.png" \notin response[r].assets

\* C6: whatever /assets lists or index.json points at was written by a run
\* that went through all its stages: no file of an unfinished or aborted run
\* is visible.
C6_NoPartialPublished ==
    \A f \in ListAssets \cup IndexView :
        files[f] # 0 => RanToEnd(files[f])

\* C7 as claimed: the result of every invocation is the index that invocation
\* built itself from its inputs and the provider's data, whatever an earlier
\* invocation left on disk.
C7_Independent ==
    \A r \in Reqs :
        Finished(r) /\ response[r].status = 200 => response[r].assets = req_assets[r]

\* C7 as amended: an invocation with force, or one that finds no index.json,
\* returns the index it built itself; without force and with an index.json
\* stored by an earlier completed run it returns that stored index and
\* writes nothing.
C7_IndependentWhenForced ==
    \A r \in Reqs :
        Finished(r) /\ response[r].status = 200 =>
            IF outcome[r] = "cached"
            THEN /\ ~req_force[r]
                 /\ \E o \in Reqs \ {r} : RanToEnd(o) /\ response[r].assets = response[o].assets
                 /\ req_assets[r] = {}
                 /\ \A f \in FileNames : files[f] # r
            ELSE /\ RanToEnd(r)
                 /\ response[r].assets = req_assets[r]

C7_Witness ==
    \E r \in Reqs, o \in Reqs :
        /\ r # o
        /\ outcome[o] = "full" /\ RanToEnd(r)
        /\ req_force[r]
        /\ files["index.json"] = r
        /\ files["validated_hotspots.png"] = o
        /\ response[r].assets # response[o].assets

\* C8: two requests for the key are never inside UHIPipeline.run at once.
C8_Serialized ==
    \A r1 \in Reqs, r2 \in Reqs :
        r1 # r2 => ~(InsideRun(r1) /\ InsideRun(r2))

\* C9: runs that ended for different reasons (city not geocoded, fewer than
\* 50 valid samples, full success, any other error) give the caller
\* different answers.
C9_DistinguishableKinds ==
    \A r1 \in Reqs, r2 \in Reqs :
        /\ outcome[r1] \in {"geocode", "insufficient", "full", "other"}
        /\ outcome[r2] \in {"geocode", "insufficient", "full", "other"}
        /\ outcome[r1] # outcome[r2]
        => response[r1] # response[r2]

-----------------------------------------------------------------------------
(***************************************************************************)
(* SpecFile : GET /file/{path} (main.py 66-73).  A name is a sequence of   *)
(* characters, a path a number of leading slashes and a sequence of names, *)
(* so that str.startswith compares characters and not path segments.       *)
(***************************************************************************)

Dot == <<".">>
DotDot == <<".", ".">>
Empty == <<>>
Workspace == <<"w", "o", "r", "k", "s", "p", "a", "c", "e">>
Output == <<"o", "u", "t", "p", "u", "t">>
Output2 == <<"o", "u", "t", "p", "u", "t", "2">>
Tokyo == <<"t", "o", "k", "y", "o">>
IndexJson == <<"i", "n", "d", "e", "x", ".", "j", "s", "o", "n">>
Secret == <<"s", "e", "c", "r", "e", "t">>

\* main.py 22: os.path.abspath(os.getenv("UHI_OUTPUT_DIR", "/workspace/output"))
OUTPUT_BASE == [lead |-> 1, segs |-> <<Workspace, Output>>]

\* the regular files of the machine (os.path.isfile)
Disk == {<<Workspace, Output, Tokyo, IndexJson>>,
         <<Workspace, Output, Secret>>,
         <<Workspace, Output2, Secret>>,
         <<Workspace, Secret>>,
         <<Secret>>}

RECURSIVE JoinNames(_)
\* "/".join(names), as characters
JoinNames(names) ==
    IF names = <<>> THEN <<>>
    ELSE IF Len(names) = 1 THEN names[1]
    ELSE names[1] \o <<"/">> \o JoinNames(Tail(names))
\* the string of a path
Str(path) == [i \in 1..path.lead |-> "/"] \o JoinNames(path.segs)

\* os.path.join(a, b) for an a without trailing slash
PathJoin(a, b) ==
    IF b.lead > 0 THEN b
    ELSE [lead |-> a.lead, segs |-> a.segs \o b.segs]

RECURSIVE Collapse(_, _, _)
\* the loop of posixpath.normpath over the components
Collapse(comps, new_comps, rooted) ==
    IF comps = <<>> THEN new_comps
    ELSE LET c == Head(comps) IN
         IF c \in {Empty, Dot} THEN Collapse(Tail(comps), new_comps, rooted)
         ELSE IF c # DotDot \/ (~rooted /\ new_comps = <<>>)
                            \/ (new_comps # <<>> /\ new_comps[Len(new_comps)] = DotDot)
              THEN Collapse(Tail(comps), Append(new_comps, c), rooted)
         ELSE IF new_comps # <<>>
              THEN Collapse(Tail(comps), SubSeq(new_comps, 1, Len(new_comps) - 1), rooted)
         ELSE Collapse(Tail(comps), new_comps, rooted)
\* os.path.abspath of an absolute path: posixpath.normpath
AbsPath(path) ==
    [lead |-> IF path.lead = 2 THEN 2 ELSE 1,
     segs |-> Collapse(path.segs, <<>>, TRUE)]

\* str.startswith
StartsWith(str, prefix) ==
    /\ Len(str) >= Len(prefix)
    /\ SubSeq(str, 1, Len(prefix)) = prefix

IsFile(path) == path.segs \in Disk

\* main.py 69: the test that lets a request through
Allowed(path) == StartsWith(Str(path), Str(OUTPUT_BASE))

\* the paths a client can ask for
Names == {Empty, Dot, DotDot, Workspace, Output, Output2, Tokyo, IndexJson, Secret}
SegSeqs == UNION {[1..n -> Names] : n \in 0..MaxSegs}
RequestPaths == {[lead |-> l, segs |-> sq] : l \in 0..3, sq \in SegSeqs}

\* main.py 66-73: one request, from its arrival to the response it builds
GetFile ==
    /\ file_resp = 0
    /\ \E path \in RequestPaths :
          LET abs == AbsPath(PathJoin(OUTPUT_BASE, path)) IN
          /\ file_path' = path
          /\ abs_path' = abs
          /\ file_resp' = IF ~Allowed(abs) THEN 403
                          ELSE IF ~IsFile(abs) THEN 404
                          ELSE 200
    /\ UNCHANGED <<rasterVars, statsVars, runVars>>

InitFile ==
    /\ IdleRun
    /\ IdleStats
    /\ DonePixel(MIN_VOTES)

\* the response (FileResponse or HTTPException) is sent; the endpoint keeps
\* nothing from one request to the next
Reply ==
    /\ file_resp # 0
    /\ file_path' = NoPath
    /\ abs_path' = NoPath
    /\ file_resp' = 0
    /\ UNCHANGED <<rasterVars, statsVars, runVars>>

NextFile == GetFile \/ Reply
SpecFile == InitFile /\ [][NextFile]_vars

-----------------------------------------------------------------------------
(* Claim about the file-serving endpoint *)

\* the resolved path is the output directory or a descendant of it
InsideOutputDir(path) ==
    /\ Len(path.segs) >= 2
    /\ path.segs[1] = Workspace
    /\ path.segs[2] = Output

\* C12: a file is served only if its resolved absolute path is the output
\* directory or a descendant of it, and every request whose resolved path
\* lies elsewhere is answered 403.
C12_ServesOnlyInside ==
    file_resp # 0 =>
        /\ file_resp = 200 => InsideOutputDir(abs_path)
        /\ ~InsideOutputDir(abs_path) => file_resp = 403

====
